---- MODULE Spec2Model ----
(***************************************************************************)
(* Passkey (WebAuthn) authentication and session issuance of envoy-ai.    *)
(*                                                                         *)
(* State: the in-memory challenge map of AuthService, the committed rows  *)
(* of the users and credentials tables, and one record per request worker *)
(* (FastAPI runs the `def` endpoints on a thread pool, so two completion  *)
(* requests may interleave between their accesses to the shared map and   *)
(* the database).                                                          *)
(*                                                                         *)
(* The agents of the same backend (TaskPacket, BaseAgent) are modelled in  *)
(* a section of their own, with the agent's status and history as state.   *)
(*                                                                         *)
(* Strings and byte strings are sequences of integers: a byte string is a *)
(* sequence over 0..255, a text string a sequence of ASCII codes.         *)
(***************************************************************************)
EXTENDS Integers, Sequences, FiniteSets, Bags, TLC

(***************************************************************************)
(* Bounds of the model.                                                    *)
(***************************************************************************)
MaxChallenges == 2
\* how many times the clock is advanced between token checks
MaxElapse == 3

\* Domains of the model.
Workers == {"w1", "w2"}
Usernames == {"alice", "bob"}
DisplayNames == {"Alice A"}
\* Raw credential ids an authenticator may hold.  <<65, 81>> is the ASCII
\* text "AQ", which is also the base64url text of the one-byte id <<1>>.
RawCredentialIds == {<<1>>, <<65, 81>>}
\* the signature counters an authenticator reports
SignCounts == {0, 1}
\* the user ids a token may name
TokenUserIds == {1, 2, 3, 10, 12}

(***************************************************************************)
(* Program constants.                                                      *)
(***************************************************************************)
JWT_EXPIRATION_MINUTES == 10080

(***************************************************************************)
(* Encodings.                                                              *)
(***************************************************************************)
HexDigit(n) == IF n < 10 THEN 48 + n ELSE 87 + n

\* bytes.hex(): two lowercase hex digits per byte
RECURSIVE Hex(_)
Hex(b) ==
    IF b = <<>> THEN <<>>
    ELSE <<HexDigit(Head(b) \div 16), HexDigit(Head(b) % 16)>> \o Hex(Tail(b))

HexValue(c) == IF c >= 97 THEN c - 87 ELSE c - 48

\* bytes.fromhex() of a string of hex digits of even length
RECURSIVE FromHex(_)
FromHex(s) ==
    IF Len(s) < 2 THEN <<>>
    ELSE <<16 * HexValue(s[1]) + HexValue(s[2])>> \o FromHex(SubSeq(s, 3, Len(s)))

\* the base64url alphabet: A-Z a-z 0-9 - _
B64Char(v) ==
    IF v < 26 THEN 65 + v
    ELSE IF v < 52 THEN 97 + (v - 26)
    ELSE IF v < 62 THEN 48 + (v - 52)
    ELSE IF v = 62 THEN 45 ELSE 95

\* base64url text of a byte string, without padding, as the browser sends a
\* credential's rawId and id
RECURSIVE Base64Url(_)
Base64Url(b) ==
    IF b = <<>> THEN <<>>
    ELSE IF Len(b) = 1 THEN
        <<B64Char(b[1] \div 4), B64Char((b[1] % 4) * 16)>>
    ELSE IF Len(b) = 2 THEN
        <<B64Char(b[1] \div 4),
          B64Char((b[1] % 4) * 16 + b[2] \div 16),
          B64Char((b[2] % 16) * 4)>>
    ELSE
        <<B64Char(b[1] \div 4),
          B64Char((b[1] % 4) * 16 + b[2] \div 16),
          B64Char((b[2] % 16) * 4 + b[3] \div 64),
          B64Char(b[3] % 64)>> \o Base64Url(SubSeq(b, 4, Len(b)))

\* bytes(text, 'utf-8') of an ASCII text: one byte per character
Utf8(s) == s

\* str(int) for a natural number
RECURSIVE IntToStr(_)
IntToStr(n) ==
    IF n < 10 THEN <<48 + n>> ELSE IntToStr(n \div 10) \o <<48 + (n % 10)>>

\* int(str) for a string of decimal digits
RECURSIVE StrToInt(_)
StrToInt(s) ==
    IF s = <<>> THEN 0
    ELSE 10 * StrToInt(SubSeq(s, 1, Len(s) - 1)) + (s[Len(s)] - 48)

(***************************************************************************)
(* State.                                                                  *)
(***************************************************************************)
VARIABLES
    challenges,   \* AuthService.challenges: username -> hex text, <<>> = no entry
    issued,       \* number of challenges drawn from secrets.token_bytes so far
    users,        \* committed rows of table users
    credentials,  \* committed rows of table credentials
    inflight,     \* bag of the completion requests in progress, each with its locals
    resp,         \* the response an endpoint has produced and not yet sent
    now,          \* the next value of datetime.utcnow(); 0 stands for NULL in a row
    latest,       \* history: per username, the challenge issued last and its ceremony
    agent         \* a BaseAgent: its _status and its _conversation_history

vars == <<challenges, issued, users, credentials, inflight, resp, now, latest, agent>>

NoToken == [sub |-> <<>>, username |-> "", exp |-> 0, key |-> ""]

NoResp == [op |-> "none", username |-> "", status |-> 0,
           detail |-> "", exc |-> "", log |-> "", token |-> NoToken]

\* the locals of a request
NewReq == [pc |-> "start", op |-> "none", username |-> "", display_name |-> "",
            challenge |-> <<>>, credential_id |-> <<>>, public_key |-> <<>>,
            sign_count |-> 0, loaded_sign_count |-> 0, last_used_at |-> 0,
            user_id |-> 0, cred_row |-> 0]

Init ==
    /\ challenges = [u \in Usernames |-> <<>>]
    /\ issued = 0
    /\ users = {}
    /\ credentials = {}
    /\ inflight = EmptyBag
    /\ resp = NoResp
    /\ now = 1
    /\ latest = [u \in Usernames |-> [challenge |-> <<>>, ceremony |-> "none"]]
    /\ agent = [status |-> "idle", conversation_history |-> <<>>]

(***************************************************************************)
(* Database queries on the committed rows.                                 *)
(***************************************************************************)
UsersNamed(u) == {r \in users : r.username = u}

CredentialsOf(uid) == {c \in credentials : c.user_id = uid}

FindCredential(uid, cid) ==
    {c \in credentials : c.user_id = uid /\ c.credential_id = cid}

\* the public key an authenticator made together with the raw credential id
PublicKeyOf(raw) == raw

(***************************************************************************)
(* The external WebAuthn verification primitive.  A response names the     *)
(* challenge the authenticator signed; `ok` stands for every other check   *)
(* of the primitive (origin, relying party, signature, structure).        *)
(***************************************************************************)
\* the challenges a client has seen
Issued == {<<n>> : n \in 1..issued}

\* the challenge a completion for u would read, <<>> if none
Expected(u) == FromHex(challenges[u])

\* The registration responses a client may send for u.  The handler reads the
\* response only after it has found a challenge, and the primitive rejects a
\* response whatever else it carries, so one response stands for all that
\* are not read and one per challenge for all that are rejected.
Attestations(u) ==
    IF challenges[u] = <<>> THEN
        {[challenge |-> <<>>, ok |-> FALSE, credId |-> <<1>>, signCount |-> 0,
          transports |-> <<>>]}
    ELSE
        [challenge : {Expected(u)}, ok : {TRUE},
         credId : RawCredentialIds, signCount : SignCounts,
         transports : {<<>>, <<"usb">>}]
        \cup
        [challenge : Issued \ {Expected(u)}, ok : {TRUE},
         credId : {<<1>>}, signCount : {0}, transports : {<<>>}]
        \cup
        [challenge : {Expected(u)}, ok : {FALSE},
         credId : {<<1>>}, signCount : {0}, transports : {<<>>}]

verify_registration_response(credential, expected_challenge) ==
    credential.ok /\ credential.challenge = expected_challenge

\* An assertion as the endpoint receives it: rawId is a text or missing
\* (rawIdIsStr = FALSE), id is a text; signer is the raw id of the credential
\* whose private key signed.
AssertionShapes ==
    {[rawIdIsStr |-> TRUE, rawId |-> Base64Url(r), id |-> Base64Url(r), signer |-> r] :
        r \in RawCredentialIds}
    \cup
    {[rawIdIsStr |-> FALSE, rawId |-> <<>>, id |-> Hex(r), signer |-> r] :
        r \in RawCredentialIds}

\* The assertions a client may send for u, with the same economy.
Assertions(u) ==
    IF challenges[u] = <<>> \/ UsersNamed(u) = {} THEN
        {[shape |-> CHOOSE sh \in AssertionShapes : TRUE, challenge |-> <<>>,
          ok |-> FALSE, newSignCount |-> 0]}
    ELSE
        [shape : AssertionShapes, challenge : {Expected(u)}, ok : {TRUE},
         newSignCount : SignCounts]
        \cup
        [shape : AssertionShapes, challenge : Issued \ {Expected(u)}, ok : {TRUE},
         newSignCount : {0}]
        \cup
        [shape : AssertionShapes, challenge : {Expected(u)}, ok : {FALSE},
         newSignCount : {0}]

verify_authentication_response(credential, expected_challenge, credential_public_key) ==
    /\ credential.ok
    /\ credential.challenge = expected_challenge
    /\ credential_public_key = PublicKeyOf(credential.shape.signer)

(***************************************************************************)
(* Session tokens.                                                         *)
(***************************************************************************)
JWT_SECRET_KEY == "secret"

\* the subject cut to its last digit
create_access_token_last_digit(user_id, username) ==
    [sub |-> IntToStr(user_id % 10), username |-> username,
     exp |-> now + JWT_EXPIRATION_MINUTES, key |-> JWT_SECRET_KEY]

create_access_token(user_id, username) ==
    [sub |-> IntToStr(user_id), username |-> username,
     exp |-> now + JWT_EXPIRATION_MINUTES, key |-> JWT_SECRET_KEY]

NoPayload == [sub |-> <<>>, username |-> "", exp |-> 0]

\* jwt.decode with options={"verify_exp": False}
verify_token_ignoring_exp(token) ==
    IF token.key = JWT_SECRET_KEY
    THEN [sub |-> token.sub, username |-> token.username, exp |-> token.exp]
    ELSE NoPayload

\* jwt.decode: the signature must match the secret and exp must not be past
verify_token(token) ==
    IF token.key = JWT_SECRET_KEY /\ ~(token.exp < now)
    THEN [sub |-> token.sub, username |-> token.username, exp |-> token.exp]
    ELSE NoPayload

(***************************************************************************)
(* Responses of the endpoints.                                             *)
(***************************************************************************)
\* exc is the class of the exception the service raised, log the message
\* logger.error records for it
Response(op, u, status, detail, exc, log, token) ==
    [op |-> op, username |-> u, status |-> status,
     detail |-> detail, exc |-> exc, log |-> log, token |-> token]

\* no `except ValueError` clause: the ValueError falls to `except Exception`
Raise400_as_unexpected(op, u, detail) ==
    Response(op, u, 500, "Internal server error", "ValueError", detail, NoToken)

\* except ValueError as e: 400 with str(e)
Raise400(op, u, detail) == Response(op, u, 400, detail, "ValueError", "", NoToken)

\* except Exception: 500 "Internal server error"; the session is closed by
\* get_db, which rolls back what was not committed
Raise500(op, u, exc, log) ==
    Response(op, u, 500, "Internal server error", exc, log, NoToken)

\* the response produced last has gone out
Sent == resp = NoResp

\* a worker of the thread pool is free to take a request
FreeWorker == BagCardinality(inflight) < Cardinality(Workers)

Requests == BagToSet(inflight)

\* request r goes on as r2
Continue(r, r2) == inflight' = (inflight (-) SetToBag({r})) (+) SetToBag({r2})

\* request r is answered
Finish(r) == inflight' = inflight (-) SetToBag({r})

(***************************************************************************)
(* Begin: the service methods, called directly.                            *)
(***************************************************************************)
\* secrets.token_bytes: a value never drawn before
token_bytes == <<issued + 1>>

\* self.challenges.setdefault(username, challenge.hex()): an outstanding
\* challenge is kept
issue_keeping_outstanding(u, ceremony) ==
    /\ issued < MaxChallenges
    /\ issued' = issued + 1
    /\ challenges' = [challenges EXCEPT ![u] = IF @ = <<>> THEN Hex(token_bytes) ELSE @]
    /\ latest' = [latest EXCEPT ![u] = [challenge |-> token_bytes, ceremony |-> ceremony]]

\* self.challenges[username] = challenge.hex()
issue(u, ceremony) ==
    /\ issued < MaxChallenges
    /\ issued' = issued + 1
    /\ challenges' = [challenges EXCEPT ![u] = Hex(token_bytes)]
    /\ latest' = [latest EXCEPT ![u] = [challenge |-> token_bytes, ceremony |-> ceremony]]

\* the ValueError a service method raised goes to its caller
Refused(op, u, detail) == Response(op, u, 0, detail, "ValueError", "", NoToken)

\* the challenge stored before the username is looked up
generate_registration_options_issuing_first(u) ==
    /\ Sent
    /\ issue(u, "registration")
    /\ resp' = IF UsersNamed(u) # {}
               THEN Refused("generate_registration_options", u, "Username already exists")
               ELSE NoResp
    /\ UNCHANGED <<users, credentials, inflight, now>>
    /\ UNCHANGED agent

generate_registration_options(u) ==
    /\ Sent
    /\ IF UsersNamed(u) # {}
       THEN /\ resp' = Refused("generate_registration_options", u,
                               "Username already exists")
            /\ UNCHANGED <<challenges, issued, latest>>
       ELSE /\ issue(u, "registration")
            /\ resp' = NoResp
    /\ UNCHANGED <<users, credentials, inflight, now>>
    /\ UNCHANGED agent

generate_authentication_options(u) ==
    /\ Sent
    /\ IF UsersNamed(u) = {}
       THEN /\ resp' = Refused("generate_authentication_options", u, "User not found")
            /\ UNCHANGED <<challenges, issued, latest>>
       ELSE LET user == CHOOSE r \in UsersNamed(u) : TRUE IN
            IF CredentialsOf(user.id) = {}
            THEN /\ resp' = Refused("generate_authentication_options", u,
                                    "No credentials found for user")
                 /\ UNCHANGED <<challenges, issued, latest>>
            ELSE /\ issue(u, "authentication")
                 /\ resp' = NoResp
    /\ UNCHANGED <<users, credentials, inflight, now>>
    /\ UNCHANGED agent

(***************************************************************************)
(* Begin: the endpoints.  They call                                        *)
(* auth_service.generate_registration_options_for_user and                 *)
(* auth_service.generate_authentication_options_for_user, which AuthService*)
(* does not define: the attribute lookup raises AttributeError, which is   *)
(* not a ValueError.                                                       *)
(***************************************************************************)
register_begin(u) ==
    /\ Sent
    /\ FreeWorker
    /\ resp' = Raise500("register_begin", u, "AttributeError", "no attribute")
    /\ UNCHANGED <<challenges, issued, users, credentials, inflight, now, latest>>
    /\ UNCHANGED agent

login_begin(u) ==
    /\ Sent
    /\ FreeWorker
    /\ resp' = Raise500("login_begin", u, "AttributeError", "no attribute")
    /\ UNCHANGED <<challenges, issued, users, credentials, inflight, now, latest>>
    /\ UNCHANGED agent

(***************************************************************************)
(* register_complete -> AuthService.verify_registration, in three steps:   *)
(* up to db.flush(), db.commit(), and from `del self.challenges[username]` *)
(* to the response.                                                        *)
(***************************************************************************)
\* a flush that commits: the User row is in the table before the Credential
users_after_flush_committed(u, dn) ==
    users \cup {[id |-> Cardinality(users) + 1, username |-> u, display_name |-> dn]}

\* db.add(user); db.flush(): the INSERT is sent inside the session's open
\* transaction; the committed table is as before until db.commit()
users_after_flush(u, dn) == users

register_complete(u, dn, credential) ==
    /\ Sent
    /\ FreeWorker
    /\ LET challenge_hex == challenges[u]
           challenge == FromHex(challenge_hex)
       IN
       IF challenge_hex = <<>> THEN
            /\ resp' = Raise400("register_complete", u,
                                "No registration in progress for this user")
            /\ UNCHANGED <<inflight, users>>
       ELSE IF ~verify_registration_response(credential, challenge) THEN
            /\ resp' = Raise500("register_complete", u, "InvalidRegistrationResponse",
                                IF credential.challenge # challenge
                                THEN "unexpected challenge" ELSE "invalid response")
            /\ UNCHANGED <<inflight, users>>
       ELSE IF UsersNamed(u) # {} THEN
            \* db.flush(): INSERT INTO users violates UNIQUE(username)
            /\ resp' = Raise500("register_complete", u, "IntegrityError", "users.username")
            /\ UNCHANGED <<inflight, users>>
       ELSE IF credential.transports # <<>> THEN
            \* t.value for a transport that is a str
            /\ resp' = Raise500("register_complete", u, "AttributeError", "no attribute")
            /\ users' = users_after_flush(u, dn)
            /\ UNCHANGED inflight
       ELSE /\ inflight' = inflight (+) SetToBag({
                    [NewReq EXCEPT !.pc = "reg_commit", !.op = "register_complete",
                                   !.username = u, !.display_name = dn,
                                   !.challenge = challenge,
                                   !.credential_id = Hex(credential.credId),
                                   !.public_key = PublicKeyOf(credential.credId),
                                   !.sign_count = credential.signCount]})
            /\ users' = users_after_flush(u, dn)
            /\ resp' = NoResp
    /\ UNCHANGED <<challenges, issued, credentials, now, latest>>
    /\ UNCHANGED agent

\* users.username without unique=True: the commit inserts a second row of the
\* same username
reg_commit_without_unique(r) ==
    /\ Sent
    /\ r.pc = "reg_commit"
    /\ LET uid == Cardinality(users) + 1 IN
       IF \E c \in credentials : c.credential_id = r.credential_id
       THEN /\ resp' = Raise500(r.op, r.username, "IntegrityError",
                                "credentials.credential_id")
            /\ Finish(r)
            /\ UNCHANGED <<users, credentials>>
       ELSE /\ users' = users \cup
                  {[id |-> uid, username |-> r.username, display_name |-> r.display_name]}
            /\ credentials' = credentials \cup
                  {[id |-> Cardinality(credentials) + 1, user_id |-> uid,
                    credential_id |-> r.credential_id, public_key |-> r.public_key,
                    sign_count |-> r.sign_count, transports |-> "[]",
                    last_used_at |-> 0]}
            /\ Continue(r, [r EXCEPT !.pc = "reg_del", !.user_id = uid])
            /\ resp' = NoResp
    /\ UNCHANGED <<challenges, issued, now, latest>>
    /\ UNCHANGED agent

\* db.commit() of the pending User and Credential, then db.refresh(user)
reg_commit(r) ==
    /\ Sent
    /\ r.pc = "reg_commit"
    /\ LET uid == Cardinality(users) + 1 IN
       IF \/ UsersNamed(r.username) # {}
          \/ \E c \in credentials : c.credential_id = r.credential_id
       THEN /\ resp' = Raise500(r.op, r.username, "IntegrityError",
                                IF UsersNamed(r.username) # {}
                                THEN "users.username" ELSE "credentials.credential_id")
            /\ Finish(r)
            /\ UNCHANGED <<users, credentials>>
       ELSE /\ users' = users \cup
                  {[id |-> uid, username |-> r.username, display_name |-> r.display_name]}
            /\ credentials' = credentials \cup
                  {[id |-> Cardinality(credentials) + 1, user_id |-> uid,
                    credential_id |-> r.credential_id, public_key |-> r.public_key,
                    sign_count |-> r.sign_count, transports |-> "[]",
                    last_used_at |-> 0]}
            /\ Continue(r, [r EXCEPT !.pc = "reg_del", !.user_id = uid])
            /\ resp' = NoResp
    /\ UNCHANGED <<challenges, issued, now, latest>>
    /\ UNCHANGED agent

\* self.challenges.clear() in place of del self.challenges[username]
del_challenge_clearing_all(r) ==
    /\ Sent
    /\ r.pc \in {"reg_del", "auth_del"}
    /\ IF challenges[r.username] = <<>>
       THEN /\ resp' = Raise500(r.op, r.username, "KeyError", r.username)
            /\ UNCHANGED challenges
       ELSE /\ challenges' = [u \in Usernames |-> <<>>]
            /\ resp' = Response(r.op, r.username, 200, "", "", "",
                                create_access_token(r.user_id, r.username))
    /\ Finish(r)
    /\ UNCHANGED <<issued, users, credentials, now, latest>>
    /\ UNCHANGED agent

\* del self.challenges[username]; then the endpoint mints the token
del_challenge(r) ==
    /\ Sent
    /\ r.pc \in {"reg_del", "auth_del"}
    /\ IF challenges[r.username] = <<>>
       THEN /\ resp' = Raise500(r.op, r.username, "KeyError", r.username)
            /\ UNCHANGED challenges
       ELSE /\ challenges' = [challenges EXCEPT ![r.username] = <<>>]
            /\ resp' = Response(r.op, r.username, 200, "", "", "",
                                create_access_token(r.user_id, r.username))
    /\ Finish(r)
    /\ UNCHANGED <<issued, users, credentials, now, latest>>
    /\ UNCHANGED agent

(***************************************************************************)
(* login_complete -> AuthService.verify_authentication, in three steps:    *)
(* up to the assignment of the new counter, db.commit(), and del_challenge.*)
(***************************************************************************)
\* the key the credential is looked up by
credential_id_hex(shape) ==
    IF shape.rawIdIsStr THEN Hex(Utf8(shape.rawId)) ELSE shape.id

\* last_used_at written and committed before the assertion is verified
reject_assertion_after_touch(u, cred) ==
    /\ resp' = Raise500("login_complete", u, "InvalidAuthenticationResponse",
                        "invalid response")
    /\ credentials' = {IF c.id = cred.id THEN [c EXCEPT !.last_used_at = now] ELSE c :
                          c \in credentials}
    /\ now' = now + 1
    /\ UNCHANGED inflight

\* verify_authentication_response raises: nothing was assigned yet
reject_assertion(u, cred) ==
    /\ resp' = Raise500("login_complete", u, "InvalidAuthenticationResponse",
                        "invalid response")
    /\ UNCHANGED <<inflight, now, credentials>>

login_complete(u, credential) ==
    /\ Sent
    /\ FreeWorker
    /\ LET challenge_hex == challenges[u]
           challenge == FromHex(challenge_hex)
       IN
       IF challenge_hex = <<>> THEN
            /\ resp' = Raise400("login_complete", u,
                                "No authentication in progress for this user")
            /\ UNCHANGED <<inflight, now, credentials>>
       ELSE IF UsersNamed(u) = {} THEN
            /\ resp' = Raise400("login_complete", u, "User not found")
            /\ UNCHANGED <<inflight, now, credentials>>
       ELSE LET user == CHOOSE x \in UsersNamed(u) : TRUE
                found == FindCredential(user.id, credential_id_hex(credential.shape))
            IN
            IF found = {} THEN
                /\ resp' = Raise400("login_complete", u, "Credential not found")
                /\ UNCHANGED <<inflight, now, credentials>>
            ELSE LET cred == CHOOSE c \in found : TRUE IN
                IF ~verify_authentication_response(credential, challenge, cred.public_key)
                THEN reject_assertion(u, cred)
                ELSE \* credential.sign_count and credential.last_used_at are
                     \* assigned on the session's object, to be written by commit
                     /\ inflight' = inflight (+) SetToBag({
                            [NewReq EXCEPT !.pc = "auth_commit", !.op = "login_complete",
                                           !.username = u,
                                           !.display_name = user.display_name,
                                           !.challenge = challenge,
                                           !.user_id = user.id,
                                           !.cred_row = cred.id,
                                           !.loaded_sign_count = cred.sign_count,
                                           !.sign_count = credential.newSignCount,
                                           !.last_used_at = now]})
                     /\ resp' = NoResp
                     /\ now' = now + 1
                     /\ UNCHANGED credentials
    /\ UNCHANGED <<challenges, issued, users, latest>>
    /\ UNCHANGED agent

\* db.commit(): UPDATE credentials SET the changed attributes WHERE id = cred_row
auth_commit(r) ==
    /\ Sent
    /\ r.pc = "auth_commit"
    /\ credentials' =
          {IF c.id = r.cred_row
           THEN [c EXCEPT !.sign_count =
                            IF r.sign_count # r.loaded_sign_count THEN r.sign_count ELSE @,
                          !.last_used_at = r.last_used_at]
           ELSE c : c \in credentials}
    /\ Continue(r, [r EXCEPT !.pc = "auth_del"])
    /\ resp' = NoResp
    /\ UNCHANGED <<challenges, issued, users, now, latest>>
    /\ UNCHANGED agent

\* POST /api/auth/logout: takes no token and touches nothing
logout ==
    /\ Sent
    /\ FreeWorker
    /\ resp' = Response("logout", "", 200, "Logged out successfully", "", "", NoToken)
    /\ UNCHANGED <<challenges, issued, users, credentials, inflight, now, latest>>
    /\ UNCHANGED agent

\* the response goes out to the client
send_response ==
    /\ resp # NoResp
    /\ resp' = NoResp
    /\ UNCHANGED <<challenges, issued, users, credentials, inflight, now, latest>>
    /\ UNCHANGED agent

\* A response is sent before the next step is taken: sending changes nothing
\* but resp, so no behaviour of the service is lost.
Next ==
    \/ send_response
    \/ \E u \in Usernames : generate_registration_options(u)
    \/ \E u \in Usernames : generate_authentication_options(u)
    \/ \E u \in Usernames : register_begin(u)
    \/ \E u \in Usernames : login_begin(u)
    \/ \E u \in Usernames, dn \in DisplayNames : \E c \in Attestations(u) :
          register_complete(u, dn, c)
    \/ \E r \in Requests : reg_commit(r)
    \/ \E u \in Usernames : \E c \in Assertions(u) : login_complete(u, c)
    \/ \E r \in Requests : auth_commit(r)
    \/ \E r \in Requests : del_challenge(r)
    \/ logout

Spec == Init /\ [][Next]_vars

(***************************************************************************)
(* The token checks: get_current_user and get_current_user_optional, run   *)
(* as dependencies of a request against a database that registrations have *)
(* filled, at any later time.                                              *)
(***************************************************************************)
\* the database after the usernames of the sequence names registered in turn,
\* the i-th with the i-th raw credential id
RawIdOf(i) == IF i = 1 THEN <<1>> ELSE <<65, 81>>

Registered(names) ==
    [users |-> {[id |-> i, username |-> names[i], display_name |-> "Alice A"] :
                    i \in 1..Len(names)},
     credentials |-> {[id |-> i, user_id |-> i, credential_id |-> Hex(RawIdOf(i)),
                       public_key |-> PublicKeyOf(RawIdOf(i)), sign_count |-> 0,
                       transports |-> "[]", last_used_at |-> 0] :
                         i \in 1..Len(names)}]

Databases ==
    {Registered(names) :
        names \in {<<>>, <<"alice">>, <<"bob">>, <<"alice", "bob">>, <<"bob", "alice">>}}

TokenInit ==
    /\ challenges = [u \in Usernames |-> <<>>]
    /\ issued = 0
    /\ \E db \in Databases : users = db.users /\ credentials = db.credentials
    /\ inflight = EmptyBag
    /\ resp = NoResp
    /\ now = 1
    /\ latest = [u \in Usernames |-> [challenge |-> <<>>, ceremony |-> "none"]]
    /\ agent = [status |-> "idle", conversation_history |-> <<>>]

\* the steps the clock can make: a minute, or the lifetime of a token
Elapses == {1, JWT_EXPIRATION_MINUTES}

\* the number of steps the clock has made
Elapsed == ((now - 1) \div JWT_EXPIRATION_MINUTES) + ((now - 1) % JWT_EXPIRATION_MINUTES)

\* time passes between two requests
elapse(d) ==
    /\ Sent
    /\ Elapsed < MaxElapse
    /\ now' = now + d
    /\ UNCHANGED <<challenges, issued, users, credentials, inflight, resp, latest>>
    /\ UNCHANGED agent

\* the token create_access_token(user_id, username) returned when the clock
\* read t0
MintedAt(t0, user_id, username) ==
    [create_access_token(user_id, username) EXCEPT !.exp = t0 + JWT_EXPIRATION_MINUTES]

\* the times a presented token may have been minted: at the start, or now
MintTimes == {1, now}

\* HTTPBearer(auto_error=False): None without an Authorization header
NoBearer == [present |-> FALSE, credentials |-> NoToken]

\* what a client may present: nothing, a token the service minted, or a
\* token signed with another key
Bearers ==
    {NoBearer} \cup
    {[present |-> TRUE, credentials |-> [MintedAt(t0, uid, uname) EXCEPT !.key = k]] :
        t0 \in MintTimes, uid \in TokenUserIds, uname \in Usernames,
        k \in {JWT_SECRET_KEY, "forged"}}

NoUser == [id |-> 0, username |-> "", display_name |-> ""]

\* (the parameter `credentials` of the source is called bearer here)
\* what a dependency hands to its route: a User, None (NoUser), or the
\* HTTPException it raised
Returned(user) == [status |-> 200, detail |-> "", user |-> user]

Unauthorized(detail) == [status |-> 401, detail |-> detail, user |-> NoUser]

\* the User no longer looked up: whoever the token names is returned
resolve_trusting_token(bearer) ==
    IF ~bearer.present THEN Unauthorized("Not authenticated")
    ELSE LET payload == verify_token(bearer.credentials) IN
         IF payload = NoPayload THEN Unauthorized("Invalid authentication credentials")
         ELSE Returned([id |-> StrToInt(payload.sub), username |-> payload.username,
                        display_name |-> ""])

\* a server-side session: the token of a username is refused once a ceremony
\* has been begun for that username
resolve_consulting_challenges(bearer) ==
    IF ~bearer.present THEN Unauthorized("Not authenticated")
    ELSE LET payload == verify_token(bearer.credentials) IN
         IF payload = NoPayload THEN Unauthorized("Invalid authentication credentials")
         ELSE LET user_id == StrToInt(payload.sub)
                  found == {x \in users : x.id = user_id /\ challenges[x.username] = <<>>}
              IN IF found = {} THEN Unauthorized("User not found")
                 ELSE Returned(CHOOSE x \in found : TRUE)

\* the body of get_current_user
resolve(bearer) ==
    IF ~bearer.present THEN Unauthorized("Not authenticated")
    ELSE LET payload == verify_token(bearer.credentials) IN
         IF payload = NoPayload THEN Unauthorized("Invalid authentication credentials")
         ELSE LET user_id == StrToInt(payload.sub)
                  found == {x \in users : x.id = user_id}
              IN IF found = {} THEN Unauthorized("User not found")
                 ELSE Returned(CHOOSE x \in found : TRUE)

\* no `except HTTPException`: the 401 of get_current_user goes through
resolve_optional_raising(bearer) ==
    IF ~bearer.present THEN Returned(NoUser) ELSE resolve(bearer)

\* the body of get_current_user_optional
resolve_optional(bearer) ==
    IF ~bearer.present THEN Returned(NoUser)
    ELSE LET r == resolve(bearer) IN
         IF r.status = 401 THEN Returned(NoUser) ELSE r

\* the outcome of a dependency, with the header it was given
Outcome(op, bearer, r) ==
    [op |-> op, username |-> r.user.username, status |-> r.status,
     detail |-> r.detail, exc |-> IF r.status = 401 THEN "HTTPException" ELSE "",
     log |-> "", token |-> NoToken, user |-> r.user, bearer |-> bearer]

get_current_user(bearer) ==
    /\ Sent
    /\ resp' = Outcome("get_current_user", bearer, resolve(bearer))
    /\ UNCHANGED <<challenges, issued, users, credentials, inflight, now, latest>>
    /\ UNCHANGED agent

get_current_user_optional(bearer) ==
    /\ Sent
    /\ resp' = Outcome("get_current_user_optional", bearer,
                       resolve_optional(bearer))
    /\ UNCHANGED <<challenges, issued, users, credentials, inflight, now, latest>>
    /\ UNCHANGED agent

TokenNext ==
    \/ send_response
    \/ \E d \in Elapses : elapse(d)
    \/ \E c \in Bearers : get_current_user(c)
    \/ \E c \in Bearers : get_current_user_optional(c)

TokenSpec == TokenInit /\ [][TokenNext]_vars

(***************************************************************************)
(* Agents: TaskPacket and BaseAgent.handle_packet.  The agents API runs    *)
(* handle_packet inside `async def` endpoints, so calls on one agent do    *)
(* not interleave.  An Optional value is a sequence of length 0 or 1.      *)
(***************************************************************************)
\* the longest conversation history looked at
MaxHistory == 3

\* A Python value of a field typed Any: its type and its items, each item a
\* value with, inside a dict, its key and the key's type.  A scalar has one
\* item, None has none.
Item(k, kt, v) == [key |-> k, keytype |-> kt, value |-> v]

Scalar(t, v) == [type |-> t, items |-> <<Item("", "", v)>>]

PyNone == [type |-> "NoneType", items |-> <<>>]

Elements(t, vs) == [type |-> t, items |-> [i \in 1..Len(vs) |-> Item("", "", vs[i])]]

\* the payloads a packet may carry
DataValues ==
    {PyNone,
     Scalar("str", "hello"),
     Scalar("int", "7"),
     Elements("list", <<"1", "2", "3">>),
     Elements("tuple", <<"1", "2">>),
     [type |-> "dict", items |-> <<Item("test", "str", "data")>>],
     [type |-> "dict", items |-> <<Item("1", "int", "x")>>]}

\* metadata: Dict[str, Any] with the keys the code reads or writes; a key that
\* is absent is <<>> (False for "error")
NoMetadata == [conversation_id |-> <<>>, error |-> FALSE, original_packet |-> <<>>]

\* TaskPacket(source_agent, target_agent, data, metadata, timestamp)
TaskPacket(source_agent, target_agent, data, metadata, timestamp) ==
    [source_agent |-> source_agent, target_agent |-> target_agent, data |-> data,
     metadata |-> metadata, timestamp |-> timestamp]

\* model_dump(): the fields as Python values; the payload and the datetime
\* are handed over as they are
to_dict(p) ==
    [source_agent |-> Scalar("str", p.source_agent),
     target_agent |-> IF p.target_agent = <<>> THEN PyNone
                      ELSE Scalar("str", p.target_agent[1]),
     data |-> p.data,
     metadata |-> p.metadata,
     timestamp |-> p.timestamp]

\* cls(**data): each field validated against its type; Any takes the value
\* as it is
from_dict(d) ==
    TaskPacket(d.source_agent.items[1].value,
               IF d.target_agent.type = "NoneType" THEN <<>>
               ELSE <<d.target_agent.items[1].value>>,
               d.data, d.metadata, d.timestamp)

\* the payload written as text, str(value), wherever it is not a scalar
JsonOf_by_str(py) ==
    [type |-> CASE py.type = "NoneType" -> "null"
                [] py.type = "int" -> "number"
                [] OTHER -> "string",
     items |-> IF py.type \in {"list", "tuple", "dict"}
               THEN <<Item("", "", py.type)>> ELSE py.items]

\* the JSON value model_dump_json() writes for a Python value: a tuple and a
\* list both become an array, a dict an object whose keys are strings
JsonOf(py) ==
    [type |-> CASE py.type = "NoneType" -> "null"
                [] py.type = "str" -> "string"
                [] py.type = "int" -> "number"
                [] py.type \in {"list", "tuple"} -> "array"
                [] py.type = "dict" -> "object",
     items |-> [i \in 1..Len(py.items) |->
                  [py.items[i] EXCEPT !.keytype = IF @ = "" THEN "" ELSE "str"]]]

\* the Python value a JSON value is parsed to
PyOf(json) ==
    [type |-> CASE json.type = "null" -> "NoneType"
                [] json.type = "string" -> "str"
                [] json.type = "number" -> "int"
                [] json.type = "array" -> "list"
                [] json.type = "object" -> "dict",
     items |-> json.items]

\* model_dump_json(): the datetime as ISO text
to_json(p) ==
    [source_agent |-> JsonOf(to_dict(p).source_agent),
     target_agent |-> JsonOf(to_dict(p).target_agent),
     data |-> JsonOf(p.data),
     metadata |-> p.metadata,
     timestamp |-> IntToStr(p.timestamp)]

\* model_validate_json(json_str)
from_json(j) ==
    TaskPacket(PyOf(j.source_agent).items[1].value,
               IF j.target_agent.type = "null" THEN <<>>
               ELSE <<PyOf(j.target_agent).items[1].value>>,
               PyOf(j.data), j.metadata, StrToInt(j.timestamp))

\* AgentStatus
AgentStatus == {"idle", "processing", "error", "stopped"}

\* BaseAgent.__init__
NewAgent == [status |-> "idle", conversation_history |-> <<>>]

\* the agent's name property
AgentName == "analyzer"

AgentInit ==
    /\ agent = NewAgent
    /\ challenges = [u \in Usernames |-> <<>>]
    /\ issued = 0
    /\ users = {}
    /\ credentials = {}
    /\ inflight = EmptyBag
    /\ resp = NoResp
    /\ now = 1
    /\ latest = [u \in Usernames |-> [challenge |-> <<>>, ceremony |-> "none"]]

\* the packets sent to the agent
Packets ==
    {TaskPacket(s, <<AgentName>>, Scalar("str", "hello"),
                [NoMetadata EXCEPT !.conversation_id = c], 1) :
        s \in {"api", "user"}, c \in {<<>>, <<"conv123">>}}

\* the packets that are serialized
AllPackets ==
    {TaskPacket(s, t, d, [NoMetadata EXCEPT !.conversation_id = c], 1) :
        s \in {"api"}, t \in {<<>>, <<AgentName>>}, d \in DataValues,
        c \in {<<>>, <<"conv123">>}}

\* BaseAgent.create_response
create_response(data, target_agent, metadata) ==
    TaskPacket(AgentName, target_agent, data, metadata, now)

\* What process() does with a packet's data: it raises an Exception, or it
\* returns the packet it built with create_response, with or without a target
\* and with or without a conversation id of its own.
ProcessOutcomes ==
    {[raised |-> TRUE, response |-> create_response(PyNone, <<>>, NoMetadata)]}
    \cup
    {[raised |-> FALSE,
      response |-> create_response(
                      [type |-> "dict", items |-> <<Item("input_type", "str", "str")>>],
                      t, [NoMetadata EXCEPT !.conversation_id = c])] :
        t \in {<<>>, <<"reviewer">>}, c \in {<<>>, <<"own">>}}

\* the response is passed on as process() built it
respond_without_context(packet, response) == response

\* the try block after process() has returned: the conversation id copied,
\* the target defaulted to the sender
respond(packet, response) ==
    [response EXCEPT
        !.metadata = IF packet.metadata.conversation_id # <<>>
                     THEN [@ EXCEPT !.conversation_id = packet.metadata.conversation_id]
                     ELSE @,
        !.target_agent = IF @ = <<>> THEN <<packet.source_agent>> ELSE @]

\* the except block: the error response
error_response(packet) ==
    create_response(
        [type |-> "dict", items |-> <<Item("error", "str", "failed"),
                                      Item("type", "str", "ValueError")>>],
        <<packet.source_agent>>,
        [NoMetadata EXCEPT !.error = TRUE, !.original_packet = <<to_dict(packet)>>])

\* no `self._status = AgentStatus.ERROR` in the except block
status_after_always_idle(raised) == "idle"

\* the status handle_packet leaves
status_after(raised) == IF raised THEN "error" ELSE "idle"

\* self._conversation_history.insert(0, packet)
history_after_prepending(packet) == <<packet>> \o agent.conversation_history

\* self._conversation_history.append(packet)
history_after(packet) == Append(agent.conversation_history, packet)

\* what a call on the agents API hands back
AgentResult(op, packet, raised, response) ==
    [op |-> op, packet |-> packet, raised |-> raised, response |-> response]

\* handle_packet up to the call of process()
handle_packet(packet) ==
    /\ Sent
    /\ agent.status # "processing"
    /\ Len(agent.conversation_history) < MaxHistory
    /\ agent' = [status |-> "processing", conversation_history |-> history_after(packet)]
    /\ UNCHANGED <<challenges, issued, users, credentials, inflight, resp, now, latest>>

\* handle_packet from the return (or the exception) of process() to its own
\* return
process(outcome) ==
    /\ Sent
    /\ agent.status = "processing"
    /\ LET packet == agent.conversation_history[Len(agent.conversation_history)] IN
       resp' = AgentResult("handle_packet", packet, outcome.raised,
                           IF outcome.raised THEN error_response(packet)
                           ELSE respond(packet, outcome.response))
    /\ agent' = [agent EXCEPT !.status = status_after(outcome.raised)]
    /\ UNCHANGED <<challenges, issued, users, credentials, inflight, now, latest>>

clear_history ==
    /\ Sent
    /\ agent.status # "processing"
    /\ agent.conversation_history # <<>>
    /\ agent' = [agent EXCEPT !.conversation_history = <<>>]
    /\ UNCHANGED <<challenges, issued, users, credentials, inflight, resp, now, latest>>

\* TaskPacket.from_json(p.to_json())
json_round_trip(p) ==
    /\ Sent
    /\ agent.status # "processing"
    /\ resp' = AgentResult("json_round_trip", p, FALSE, from_json(to_json(p)))
    /\ UNCHANGED <<challenges, issued, users, credentials, inflight, now, latest, agent>>

\* TaskPacket.from_dict(p.to_dict())
dict_round_trip(p) ==
    /\ Sent
    /\ agent.status # "processing"
    /\ resp' = AgentResult("dict_round_trip", p, FALSE, from_dict(to_dict(p)))
    /\ UNCHANGED <<challenges, issued, users, credentials, inflight, now, latest, agent>>

AgentNext ==
    \/ send_response
    \/ \E p \in Packets : handle_packet(p)
    \/ \E outcome \in ProcessOutcomes : process(outcome)
    \/ clear_history
    \/ \E p \in AllPackets : json_round_trip(p)
    \/ \E p \in AllPackets : dict_round_trip(p)

AgentSpec == AgentInit /\ [][AgentNext]_vars

(***************************************************************************)
(* Properties.                                                             *)
(***************************************************************************)
IsNoCeremony(r) ==
    r.detail \in {"No registration in progress for this user",
                  "No authentication in progress for this user"}

\* the credentials a login_complete(u, a) would find for the assertion a
LookedUp(u, a) ==
    IF UsersNamed(u) = {} THEN {}
    ELSE FindCredential((CHOOSE x \in UsersNamed(u) : TRUE).id,
                        credential_id_hex(a.shape))

\* login_complete(u, a) gets as far as calling the primitive
ReachesVerification(u, a) == challenges[u] # <<>> /\ LookedUp(u, a) # {}

\* the challenge outstanding for u was issued by authentication-begin
AuthenticationBegun(u) ==
    /\ challenges[u] # <<>>
    /\ latest[u].ceremony = "authentication"
    /\ challenges[u] = Hex(latest[u].challenge)

PrimitiveAccepts(u, a) ==
    /\ ReachesVerification(u, a)
    /\ verify_authentication_response(a, Expected(u),
                                      (CHOOSE c \in LookedUp(u, a) : TRUE).public_key)

StoredSignCount(u, a) == (CHOOSE c \in LookedUp(u, a) : TRUE).sign_count

\* the step admits a request: one more is in progress than before
Admits == BagCardinality(inflight') > BagCardinality(inflight)

\* C1: for an unregistered username u, the registration-begin endpoint
\* followed by the registration-complete endpoint with a response the
\* primitive accepts creates exactly one User named u with exactly one
\* Credential, and answers with a token whose verified subject is the new
\* User's id.  Stated on the responses: registration-begin for an unregistered
\* username answers 200 and leaves a challenge outstanding, and a 200 of
\* registration-complete comes with the one User, its one Credential and the
\* token.
C1_RegistrationThroughEndpoints ==
    /\ (resp.op = "register_begin" /\ UsersNamed(resp.username) = {})
          => (resp.status = 200 /\ challenges[resp.username] # <<>>)
    /\ (resp.op = "register_complete" /\ resp.status = 200)
          => /\ Cardinality(UsersNamed(resp.username)) = 1
             /\ \A user \in UsersNamed(resp.username) :
                   /\ Cardinality(CredentialsOf(user.id)) = 1
                   /\ StrToInt(verify_token(resp.token).sub) = user.id

\* C2: a completion call that found a challenge outstanding for u has
\* consumed it when it answers, whether it succeeded or failed: no challenge
\* is outstanding for u then.
C2_CompletionConsumesChallenge ==
    (resp.op \in {"register_complete", "login_complete"} /\ ~IsNoCeremony(resp))
        => challenges[resp.username] = <<>>

\* C3: when, with no other request in progress, the primitive accepts an
\* assertion whose new counter is not strictly greater than the stored
\* sign_count (also when both are 0), authentication-complete
\* answers with a domain error (PossibleCloneDetected) at once and neither
\* changes nor prepares to change the Credential.
C3_NonIncreasingCounterRejected ==
    [][\A u \in Usernames : \A a \in Assertions(u) :
          (/\ login_complete(u, a)
           /\ inflight = EmptyBag
           /\ AuthenticationBegun(u)
           /\ PrimitiveAccepts(u, a)
           /\ a.newSignCount <= StoredSignCount(u, a))
          => (/\ resp'.status = 400
              /\ resp'.detail = "PossibleCloneDetected"
              /\ inflight' = inflight
              /\ credentials' = credentials)]_vars

\* an assertion in the form the browser sends it, made by the authenticator
\* whose credential id was stored for u at registration
NamesStoredCredential(u, a) ==
    /\ a.shape.rawIdIsStr
    /\ a.shape.rawId = Base64Url(a.shape.signer)
    /\ \E user \in UsersNamed(u) : \E c \in CredentialsOf(user.id) :
          c.credential_id = Hex(a.shape.signer)

\* C4: for a registered user u after authentication-begin(u), with no other
\* request in progress, an
\* authentication-complete whose assertion names the credential id stored for
\* u at registration and which the primitive verifies is not failed; the
\* commit it leads to stores the new counter, which is strictly greater than
\* the stored one, and sets the last-used time; the token's subject is u's id.
C4_AuthenticationSucceeds ==
    [][/\ \A u \in Usernames : \A a \in Assertions(u) :
             (/\ login_complete(u, a)
              /\ inflight = EmptyBag
              /\ AuthenticationBegun(u)
              /\ NamesStoredCredential(u, a)
              /\ a.ok /\ a.challenge = Expected(u))
             => resp'.status \notin {400, 500}
       /\ \A r \in Requests : auth_commit(r) =>
             \A c \in credentials : c.id = r.cred_row =>
                \E c2 \in credentials' :
                   /\ c2.id = c.id
                   /\ c2.sign_count = r.sign_count
                   /\ c2.sign_count > c.sign_count
                   /\ c2.last_used_at # 0
       /\ (resp'.op = "login_complete" /\ resp'.status = 200) =>
             \E user \in UsersNamed(resp'.username) :
                StrToInt(verify_token(resp'.token).sub) = user.id]_vars

\* C5: an authentication-complete whose assertion the primitive rejects fails
\* with the primitive's error, mints no token, changes no User and no
\* Credential row, and leaves nothing to be committed later.  (A step of
\* login_complete either answers or admits a request, so only such steps are
\* looked at.)
C5_RejectedAssertionMutatesNothing ==
    [][(resp'.op = "login_complete" \/ Admits) =>
       \A u \in Usernames : \A a \in Assertions(u) :
          (/\ ReachesVerification(u, a)
           /\ ~PrimitiveAccepts(u, a)
           /\ login_complete(u, a))
          => (/\ resp'.op = "login_complete"
              /\ resp'.exc = "InvalidAuthenticationResponse"
              /\ resp'.status >= 400
              /\ resp'.token = NoToken
              /\ users' = users
              /\ credentials' = credentials
              /\ inflight' = inflight)]_vars

\* a rejected assertion has been answered for a user who owns a Credential
C5_Witness ==
    /\ resp.op = "login_complete"
    /\ resp.exc = "InvalidAuthenticationResponse"
    /\ \E user \in UsersNamed(resp.username) : CredentialsOf(user.id) # {}

\* C6: in every committed state of the database every User has at least one
\* Credential, also after a registration-complete that failed after the User
\* insert.
C6_NoUserWithoutCredential ==
    \A user \in users : CredentialsOf(user.id) # {}

\* a registration-complete failed at commit on a duplicate credential id,
\* after its User was flushed
C6_Witness ==
    /\ resp.op = "register_complete"
    /\ resp.exc = "IntegrityError"
    /\ resp.log = "credentials.credential_id"
    /\ UsersNamed(resp.username) = {}
    /\ users # {}

\* C7: redeeming a challenge is an atomic look-up-and-delete: no two
\* completion calls for one username are past the look-up with the same
\* challenge.
C7_RedeemIsAtomic ==
    \A r \in Requests :
        /\ CopiesIn(r, inflight) = 1
        /\ \A r2 \in Requests :
              r2 # r => ~(r2.username = r.username /\ r2.challenge = r.challenge)

\* C8: a completion in flight under a challenge that a later begin has
\* superseded fails, and it does not delete the new challenge.
C8_SupersededCompletionFails ==
    [][\A r \in Requests :
          (del_challenge(r) /\ challenges[r.username] # Hex(r.challenge))
          => (challenges' = challenges /\ resp'.status # 200)]_vars

\* the step is a call for username u, or a step of one
ActsFor(u) ==
    \/ generate_registration_options(u)
    \/ generate_authentication_options(u)
    \/ register_begin(u)
    \/ login_begin(u)
    \/ \E dn \in DisplayNames : \E c \in Attestations(u) : register_complete(u, dn, c)
    \/ \E c \in Assertions(u) : login_complete(u, c)
    \/ \E r \in Requests :
          r.username = u /\ (reg_commit(r) \/ auth_commit(r) \/ del_challenge(r))

CredentialsOfName(us, cs, v) ==
    {c \in cs : \E user \in us : user.username = v /\ c.user_id = user.id}

\* C9: a step of a begin or complete call for username u leaves the
\* outstanding challenge, the User row and the Credentials of every other
\* username v as they were.
C9_OtherUsernamesUntouched ==
    [][\A u \in Usernames :
          \/ \A v \in Usernames \ {u} :
                /\ challenges'[v] = challenges[v]
                /\ {x \in users' : x.username = v} = {x \in users : x.username = v}
                /\ CredentialsOfName(users', credentials', v)
                      = CredentialsOfName(users, credentials, v)
          \/ ~ActsFor(u)]_vars

\* a completion for one username has succeeded while another username has a
\* challenge outstanding
C9_Witness ==
    /\ resp.op \in {"register_complete", "login_complete"}
    /\ resp.status = 200
    /\ \E v \in Usernames \ {resp.username} : challenges[v] # <<>>

\* C10: the challenge outstanding for a username, if any, is the one issued
\* last for it, and a registration-complete whose response was produced for
\* another challenge than the one issued last fails and neither creates nor
\* prepares a User.  (A step of register_complete either answers or admits a
\* request.)
C10_SecondBeginInvalidatesFirst ==
    [][/\ \A u \in Usernames : challenges'[u] \in {<<>>, Hex(latest'[u].challenge)}
       /\ (resp'.op = "register_complete" \/ Admits) =>
          \A u \in Usernames : \A dn \in DisplayNames : \A c \in Attestations(u) :
             (c.challenge # latest[u].challenge /\ register_complete(u, dn, c))
             => (/\ resp'.status >= 400
                 /\ users' = users
                 /\ credentials' = credentials
                 /\ inflight' = inflight)]_vars

\* after two registration-begin calls for one username, a response produced
\* for the first challenge has been refused
C10_Witness ==
    /\ resp.op = "register_complete"
    /\ resp.log = "unexpected challenge"
    /\ issued = 2
    /\ latest[resp.username].challenge = <<2>>
    /\ \A v \in Usernames \ {resp.username} : latest[v].ceremony = "none"
    /\ users = {}

\* every registration response a client may send, read or not
AnyAttestation ==
    [challenge : Issued \cup {<<>>}, ok : BOOLEAN,
     credId : RawCredentialIds, signCount : SignCounts,
     transports : {<<>>, <<"usb">>}]

\* C11: a registration-complete for a username with no challenge outstanding
\* answers 400 "No registration in progress for this user" whatever response
\* it carries (the primitive's verdict plays no part), creates no User and no
\* Credential and leaves nothing to be committed.  (A step of
\* register_complete either answers or admits a request.)
C11_NoCeremonyCreatesNothing ==
    [][(resp'.op = "register_complete" \/ Admits) =>
       \A u \in Usernames : \A dn \in DisplayNames : \A c \in AnyAttestation :
          (challenges[u] = <<>> /\ register_complete(u, dn, c))
          => (/\ resp'.status = 400
              /\ resp'.exc = "ValueError"
              /\ resp'.detail = "No registration in progress for this user"
              /\ resp'.token = NoToken
              /\ users' = users
              /\ credentials' = credentials
              /\ inflight' = inflight)]_vars

\* a registration-complete was refused for a username whose challenge had been
\* issued and consumed
C11_Witness ==
    /\ resp.op = "register_complete"
    /\ resp.detail = "No registration in progress for this user"
    /\ latest[resp.username].ceremony = "registration"
    /\ challenges[resp.username] = <<>>
    /\ UsersNamed(resp.username) # {}

\* user u owns the Credential the assertion a identifies: the one whose raw
\* id the assertion carries (as base64url text in rawId, or as hex in id)
OwnsIdentified(u, a) ==
    \E user \in UsersNamed(u) : \E c \in CredentialsOf(user.id) :
        c.credential_id = Hex(a.shape.signer)

\* C12: an authentication-complete for a registered user u after
\* authentication-begin(u), with no other request in progress, whose assertion
\* identifies a credential that u does not own (no Credential has it, or
\* another user's has), answers 400 "Credential not found" without reaching
\* the primitive, modifies no Credential and leaves nothing to be committed.
C12_ForeignCredentialNotFound ==
    [][(resp'.op = "login_complete" \/ Admits) =>
       \A u \in Usernames : \A a \in Assertions(u) :
          (/\ inflight = EmptyBag
           /\ AuthenticationBegun(u)
           /\ UsersNamed(u) # {}
           /\ ~OwnsIdentified(u, a)
           /\ login_complete(u, a))
          => (/\ resp'.status = 400
              /\ resp'.detail = "Credential not found"
              /\ credentials' = credentials
              /\ inflight' = inflight)]_vars

\* C13: the authentication-begin endpoint answers 400 "User not found" for an
\* unknown username, 400 "No credentials found for user" for a User without
\* credentials, and otherwise 200 with a challenge outstanding.
C13_LoginBeginAnswers ==
    resp.op = "login_begin" =>
        IF UsersNamed(resp.username) = {}
        THEN resp.status = 400 /\ resp.detail = "User not found"
        ELSE IF \E user \in UsersNamed(resp.username) : CredentialsOf(user.id) = {}
        THEN resp.status = 400 /\ resp.detail = "No credentials found for user"
        ELSE resp.status = 200 /\ challenges[resp.username] # <<>>

\* C14: the registration-begin endpoint answers 400 "Username already exists"
\* for a username that a User has.
C14_RegisterBeginUsernameTaken ==
    (resp.op = "register_begin" /\ UsersNamed(resp.username) # {})
        => (resp.status = 400 /\ resp.detail = "Username already exists")

\* C15: a completion that failed because the primitive rejected the response
\* answers 400, not 500.
C15_PrimitiveFailureIsDomainError ==
    resp.exc \in {"InvalidRegistrationResponse", "InvalidAuthenticationResponse"}
        => resp.status = 400

\* C20: no step deletes or modifies a User row, and no step deletes a
\* Credential row or modifies anything of it but sign_count and last_used_at;
\* a step of a begin call and a step that answers with a failure change no
\* row; and a completion that has committed rows (it stands before its
\* `del self.challenges[username]`) answers with success.
C20_RowsChangeOnlyBySuccess ==
    [][/\ \A x \in users : x \in users'
       /\ \A c \in credentials : \E c2 \in credentials' :
             c2 = [c EXCEPT !.sign_count = c2.sign_count,
                            !.last_used_at = c2.last_used_at]
       /\ (\/ resp'.status >= 400
           \/ \E u \in Usernames :
                 \/ generate_registration_options(u)
                 \/ generate_authentication_options(u)
                 \/ register_begin(u)
                 \/ login_begin(u))
          => (users' = users /\ credentials' = credentials)
       /\ \A r \in Requests : del_challenge(r) => resp'.status = 200]_vars

\* the cases in which a bearer is not to be let in: no token, a signature
\* that does not match, an expiry in the past, a subject that no User has
IsUnauthorized(c) ==
    \/ ~c.present
    \/ c.credentials.key # JWT_SECRET_KEY
    \/ c.credentials.exp < now
    \/ ~\E user \in users : user.id = StrToInt(c.credentials.sub)

\* C16: get_current_user raises 401 when the token is missing, has a
\* signature that does not match, is expired, or names a user id that no User
\* has; in every other case it returns the User whose id is the token's subject.
C16_MandatoryCheck ==
    [][\A c \in Bearers : get_current_user(c) =>
          IF IsUnauthorized(c)
          THEN resp'.status = 401 /\ resp'.user = NoUser
          ELSE /\ resp'.status = 200
               /\ resp'.user \in users
               /\ resp'.user.id = StrToInt(c.credentials.sub)]_vars

\* a well-signed, unexpired token naming a user id that no User has was
\* refused, in a database that has Users
C16_Witness ==
    /\ resp.op = "get_current_user"
    /\ resp.status = 401
    /\ resp.detail = "User not found"
    /\ users # {}

\* C17: get_current_user_optional never raises; it returns None exactly when
\* get_current_user would raise 401, and the User get_current_user would
\* return otherwise.
C17_OptionalCheck ==
    [][\A c \in Bearers : get_current_user_optional(c) =>
          /\ resp'.status = 200
          /\ resp'.exc = ""
          /\ IF IsUnauthorized(c) \/ resolve(c).status = 401
             THEN resp'.user = NoUser /\ IsUnauthorized(c) /\ resolve(c).status = 401
             ELSE resp'.user = resolve(c).user /\ resp'.user \in users]_vars

\* the optional check returned None for an expired token of an existing User
C17_Witness ==
    /\ resp.op = "get_current_user_optional"
    /\ resp.user = NoUser
    /\ resp.bearer.present
    /\ resp.bearer.credentials.key = JWT_SECRET_KEY
    /\ resp.bearer.credentials.exp < now
    /\ \E user \in users : user.id = StrToInt(resp.bearer.credentials.sub)

\* C18: for every user id and username, the token create_access_token made
\* at some time, verified at any time up to its expiry, yields claims whose
\* subject reads back as that user id and whose username is that username.
C18_TokenRoundTrip ==
    \A t0 \in MintTimes : \A uid \in TokenUserIds : \A uname \in Usernames :
        LET token == MintedAt(t0, uid, uname) IN
        ~(token.exp < now) =>
            /\ verify_token(token) # NoPayload
            /\ StrToInt(verify_token(token).sub) = uid
            /\ verify_token(token).sub = IntToStr(uid)
            /\ verify_token(token).username = uname

\* a token minted at the start was accepted in the last minute of its life
C18_Witness ==
    /\ resp.op = "get_current_user"
    /\ resp.status = 200
    /\ now = 1 + JWT_EXPIRATION_MINUTES
    /\ resp.bearer.credentials = MintedAt(1, resp.user.id, resp.user.username)

\* C19: verify_token returns no claims for a token whose expiry is past or
\* whose signature does not match the secret, and get_current_user answers
\* 401 for it.
C19_ExpiredOrForgedRejected ==
    [][\A c \in Bearers :
          (c.present /\ (c.credentials.exp < now \/ c.credentials.key # JWT_SECRET_KEY))
          => /\ verify_token(c.credentials) = NoPayload
             /\ get_current_user(c) =>
                   (resp'.status = 401
                    /\ resp'.detail = "Invalid authentication credentials")]_vars

\* the mandatory check refused a well-signed token of an existing User one
\* minute after its expiry
C19_Witness ==
    /\ resp.op = "get_current_user"
    /\ resp.status = 401
    /\ resp.bearer.present
    /\ resp.bearer.credentials.key = JWT_SECRET_KEY
    /\ resp.bearer.credentials.exp = now - 1
    /\ \E user \in users : user.id = StrToInt(resp.bearer.credentials.sub)

\* C26: with no other request in progress, a registration-complete for an
\* unregistered username whose response the primitive accepts and which lists
\* supported transports is not failed.
C26_TransportsSurvive ==
    [][\A u \in Usernames : \A dn \in DisplayNames : \A c \in Attestations(u) :
          (/\ register_complete(u, dn, c)
           /\ inflight = EmptyBag
           /\ UsersNamed(u) = {}
           /\ verify_registration_response(c, Expected(u))
           /\ c.transports # <<>>)
          => resp'.status \notin {400, 500}]_vars

\* the challenge outstanding for u was issued by registration-begin
RegistrationBegun(u) ==
    /\ challenges[u] # <<>>
    /\ latest[u].ceremony = "registration"
    /\ challenges[u] = Hex(latest[u].challenge)

\* C27: a registration-complete(u) that finds a challenge issued by
\* authentication-begin(u), and an authentication-complete(u) for a User u
\* that finds one issued by registration-begin(u), answer 400
\* NoCeremonyInProgress without calling the primitive, admit nothing and leave
\* the challenge outstanding.
C27_ChallengeBoundToCeremony ==
    [][(resp'.op \in {"register_complete", "login_complete"} \/ Admits) =>
       \A u \in Usernames :
          /\ \A dn \in DisplayNames : \A c \in Attestations(u) :
                (AuthenticationBegun(u) /\ register_complete(u, dn, c))
                => (/\ resp'.status = 400
                    /\ IsNoCeremony(resp')
                    /\ inflight' = inflight
                    /\ challenges' = challenges)
          /\ \A a \in Assertions(u) :
                (RegistrationBegun(u) /\ UsersNamed(u) # {} /\ login_complete(u, a))
                => (/\ resp'.status = 400
                    /\ IsNoCeremony(resp')
                    /\ inflight' = inflight
                    /\ challenges' = challenges)]_vars

\* C28: a completion call that has committed (a new User and Credential, or
\* the sign_count and last-used update) answers its caller with 200 and a
\* session token whose subject is the User's id; none answers with an error.
C28_PersistingImpliesSuccess ==
    [][\A r \in Requests :
          (r.pc \in {"reg_del", "auth_del"} /\ inflight' = inflight (-) SetToBag({r}))
          => (/\ resp'.op = r.op
              /\ resp'.status = 200
              /\ resp'.token # NoToken
              /\ StrToInt(verify_token(resp'.token).sub) = r.user_id)]_vars

\* C29: at most one User row has a given username after every step, in every
\* interleaving of registration calls; a registration-complete that meets a
\* User of its username, at db.flush() or at db.commit(), fails and creates
\* neither a User nor a Credential, and leaves nothing to be committed.
C29_UsernamesStayUnique ==
    [][/\ \A u \in Usernames : Cardinality({x \in users' : x.username = u}) <= 1
       /\ \A r \in Requests :
             (r.pc = "reg_commit" /\ UsersNamed(r.username) # {} /\ reg_commit(r))
             => (/\ resp'.status >= 400
                 /\ users' = users
                 /\ credentials' = credentials
                 /\ r \notin BagToSet(inflight'))
       /\ (resp'.op = "register_complete" \/ Admits) =>
          \A u \in Usernames : \A dn \in DisplayNames : \A c \in Attestations(u) :
             (UsersNamed(u) # {} /\ register_complete(u, dn, c))
             => (/\ resp'.status >= 400
                 /\ users' = users
                 /\ credentials' = credentials
                 /\ inflight' = inflight)]_vars

\* of two registration ceremonies begun for one username, one has created the
\* User with its Credential and the other was refused by the unique constraint
C29_Witness ==
    /\ resp.op = "register_complete"
    /\ resp.exc = "IntegrityError"
    /\ resp.log = "users.username"
    /\ issued = 2
    /\ \A v \in Usernames \ {resp.username} : latest[v].ceremony = "none"
    /\ Cardinality(UsersNamed(resp.username)) = 1
    /\ Cardinality(credentials) = 1

\* C30: a begin call that fails (registration-begin for a taken username,
\* authentication-begin for an unknown user or a user without credentials, and
\* the begin endpoints, which fail for every username) issues no challenge and
\* leaves the challenge map as it was, an outstanding challenge included.
C30_FailedBeginKeepsChallenges ==
    [][\A u \in Usernames :
          /\ (UsersNamed(u) # {} /\ generate_registration_options(u))
                => (/\ resp'.exc = "ValueError"
                    /\ challenges' = challenges
                    /\ issued' = issued)
          /\ (/\ \/ UsersNamed(u) = {}
                 \/ \E user \in UsersNamed(u) : CredentialsOf(user.id) = {}
              /\ generate_authentication_options(u))
                => (/\ resp'.exc = "ValueError"
                    /\ challenges' = challenges
                    /\ issued' = issued)
          /\ ((register_begin(u) \/ login_begin(u)) /\ resp'.status >= 400)
                => (challenges' = challenges /\ issued' = issued)]_vars

\* registration-begin was refused for a taken username that had a challenge
\* outstanding, and the challenge is still there
C30_Witness ==
    /\ resp.op = "generate_registration_options"
    /\ resp.detail = "Username already exists"
    /\ challenges[resp.username] # <<>>
    /\ challenges[resp.username] = Hex(latest[resp.username].challenge)

\* the token of User x minted when the clock read t0, as a client presents it
SessionBearer(t0, x) == [present |-> TRUE, credentials |-> MintedAt(t0, x.id, x.username)]

\* when a token presented now may have been minted: just now, or so long ago
\* that it expires at the next reading of the clock
SessionMintTimes == {now, now - JWT_EXPIRATION_MINUTES}

\* C21: whatever step is taken (a logout, a begin call, a step of a
\* completion), a token that the mandatory check accepts before the step and
\* that is not expired after it is accepted after it with the same User; and a
\* logout changes nothing of the server's state.
C21_SessionsAreIrrevocable ==
    [][/\ \A x \in users : \A c \in {SessionBearer(t0, x) : t0 \in SessionMintTimes} :
             (~(c.credentials.exp < now') /\ resolve(c) = Returned(x))
             => resolve(c)' = Returned(x)
       /\ resp'.op = "logout" =>
             UNCHANGED <<challenges, issued, users, credentials, inflight, now, latest,
                         agent>>]_vars

\* a logout was answered while a User exists whose token, in the last minute
\* of its life, is accepted by the mandatory check
C21_Witness ==
    /\ resp.op = "logout"
    /\ resp.status = 200
    /\ \E x \in users :
          resolve(SessionBearer(now - JWT_EXPIRATION_MINUTES, x)) = Returned(x)

\* the packet a call of handle_packet is working on
Current == agent.conversation_history[Len(agent.conversation_history)]

\* C22: handle_packet returns a packet whose source is the agent's name, also
\* when process() raised; it leaves the status IDLE when process() returned and
\* ERROR when it raised, whatever the status was when the call began, so the
\* status is not PROCESSING once a call has returned.
C22_ResponseAndStatus ==
    [][/\ \A outcome \in ProcessOutcomes : process(outcome) =>
             /\ resp'.op = "handle_packet"
             /\ resp'.response.source_agent = AgentName
             /\ agent'.status = IF outcome.raised THEN "error" ELSE "idle"
       /\ resp'.op = "handle_packet" => agent'.status \in {"idle", "error"}
       /\ \A p \in Packets :
             (agent.status \in {"idle", "error"} /\ handle_packet(p))
             => agent'.status = "processing"]_vars

\* a call in which process() raised has returned: the response is the
\* agent's and the status is ERROR
C22_Witness ==
    /\ resp.op = "handle_packet"
    /\ resp.raised
    /\ resp.response.source_agent = AgentName
    /\ resp.response.metadata.error
    /\ agent.status = "error"

\* C23: a call of handle_packet appends its packet to the conversation
\* history before process() runs, the outcome of process() (a return or an
\* exception) changes nothing of it, clear_history empties it, and no other
\* step touches it: the history is the sequence of the packets passed since
\* construction or the last clear_history, in call order.
C23_HistoryIsTheCalls ==
    [][/\ \A p \in Packets : handle_packet(p) =>
             /\ agent'.conversation_history = Append(agent.conversation_history, p)
             /\ Len(agent'.conversation_history) = Len(agent.conversation_history) + 1
       /\ clear_history => agent'.conversation_history = <<>>
       /\ (agent.status = "processing" \/ resp # NoResp)
             => agent'.conversation_history = agent.conversation_history
       /\ resp'.op = "handle_packet" =>
             /\ agent'.conversation_history # <<>>
             /\ resp'.packet = agent'.conversation_history[Len(agent'.conversation_history)]]_vars

\* two different packets were passed, process() raised for the second, and
\* the history holds both in call order
C23_Witness ==
    /\ resp.op = "handle_packet"
    /\ resp.raised
    /\ Len(agent.conversation_history) = 2
    /\ agent.conversation_history[1] # agent.conversation_history[2]
    /\ agent.conversation_history[2] = resp.packet
    /\ agent.conversation_history[1].metadata.conversation_id = <<"conv123">>

C25_SerializationRoundTrips ==
    resp.op \in {"json_round_trip", "dict_round_trip"} =>
        /\ resp.response.source_agent = resp.packet.source_agent
        /\ resp.response.target_agent = resp.packet.target_agent
        /\ resp.response.data = resp.packet.data

\* a payload made of values JSON has: no tuple, and only strings as keys
JsonNative(py) ==
    /\ py.type # "tuple"
    /\ \A i \in 1..Len(py.items) : py.items[i].keytype \in {"", "str"}

\* C25: for every packet whose data is made of values JSON has (None,
\* numbers, strings, lists, dicts with string keys), the packet read back from
\* its JSON text and the packet read back from its dict have the source_agent,
\* the target_agent and the data of the packet.
C25_JsonNativeRoundTrips ==
    (resp.op \in {"json_round_trip", "dict_round_trip"} /\ JsonNative(resp.packet.data)) =>
        /\ resp.response.source_agent = resp.packet.source_agent
        /\ resp.response.target_agent = resp.packet.target_agent
        /\ resp.response.data = resp.packet.data

\* a broadcast packet carrying a dict came back from its JSON text as it was
C25_Witness ==
    /\ resp.op = "json_round_trip"
    /\ resp.packet.data.type = "dict"
    /\ resp.packet.target_agent = <<>>
    /\ resp.response = resp.packet

====
